---- MODULE Spec2Model ----
(***************************************************************************)
(* The batched write pipeline of influxdb-cxx (src/src/InfluxDB.cxx):      *)
(* the mutex-guarded line buffer, the periodic flushing thread, the        *)
(* classification of transport faults and the edge-triggered connection    *)
(* notifier.  Two threads are modelled: the application thread "app",      *)
(* which calls the public API, and the flushing thread "worker"            *)
(* (InfluxDB::doPeriodicFlushBuffer).                                      *)
(*                                                                         *)
(* Each action is one atomic step of one thread.  Code that runs under     *)
(* mBatchMutex is split only where another thread can observe the          *)
(* difference: at the call of Transport::send, at the assignment of        *)
(* mLastConnectionStatus and at the call of a callback.  The worker reads  *)
(* mFlushingTimeout and mLastFlushTime, and a registration reads           *)
(* mLastConnectionStatus, without the mutex while the other thread may     *)
(* write them; such a read yields the value before or after the write,     *)
(* which the interleaving of the steps covers.  Time is an integer clock   *)
(* whose origin moves once the clock has reached MaxTime, so that time     *)
(* never stops; sleep_for returns at or after its deadline.  An encoded    *)
(* line is the number of the point it encodes, "\n" is NL.  FairSpec adds  *)
(* the scheduling under which the flushing thread makes progress.          *)
(***************************************************************************)
EXTENDS Integers, Sequences, FiniteSets, TLC

\* ------------------------------------------------------------------ bounds
MaxTime == 1            \* clock values are 0..MaxTime (milliseconds), see Tick
MaxInterval == 1        \* batchOf timeouts are drawn from 0..MaxInterval
MaxBatchSize == 2       \* batchOf sizes are drawn from 0..MaxBatchSize
MaxPoints == 2          \* points written over a run
MaxVector == 2          \* longest vector handed to write(std::vector<Point>&&)
MaxRegistrations == 1   \* callback registrations over a run

\* ------------------------------------------------------------- vocabulary
Threads == {"app", "worker"}

\* what Transport::send raises (Transport.h); "none" is a normal return
Faults == {"none", "server_error", "bad_request_error", "connection_error"}

\* enum TransmissionResult (InfluxDB.h)
TransmissionResult ==
  {"TransmissionSucceeded", "PointsBatched", "ServerError", "BadRequest", "ConnectionFailed"}

\* enum ConnectionStatus (InfluxDB.h)
ConnectionStatus == {"Unknown", "ConnectionSuccess", "ConnectionError"}

\* the newline character appended to every line of a joined batch
NL == 0

VARIABLES
  now,                    \* system_clock::now()
  mLineProtocolBatch,     \* std::deque<std::string>: sequence of encoded lines
  mIsBatchingActivated,
  mBatchSize,
  mFlushingTimeout,
  mFlushingThread,        \* TRUE iff the unique_ptr<std::thread> is non-null
  mFlushingThreadStarted, \* std::atomic<bool>, the worker's run flag
  mOnBadRequest,          \* callback slots: 0 is the constructor's empty lambda,
  mOnConnectionError,     \*   n > 0 the n-th callback registered for the slot
  mOnConnectionSucceeded,
  mLastConnectionStatus,
  mLastFlushTime,
  mBatchMutex,            \* "free" or the thread that holds the std::mutex
  pc,                     \* position of each thread
  caller,                 \* which code called the flushBatch a thread is in
  result,                 \* the thread's local transmissionResult
  payload,                \* the thread's argument to transmit()
  thrown,                 \* what the thread's call of Transport::send raised
  points,                 \* app: the points of the current write still to append
  writeResult,            \* app: what the last write call returned
  msToWaitToFlush,        \* worker local (doPeriodicFlushBuffer)
  sleepUntil,             \* worker: earliest return of its sleep_for
  fired,                  \* observation: the callback slots each thread has invoked, as
                          \*   <<slot, callback>>, in its current flushBatch or registration
  nextPoint,              \* environment: the next point the application writes
  nRegistrations,         \* environment: callbacks registered so far
  callLen,                \* observation: points handed to the current write call
  callFlushes,            \* observation: flushBatch calls made by the current call
                          \*   of the application (write, flushBuffer, destructor)
  callCrossings,          \* observation: appends of the call that reached the batch size
  callSends               \* observation: Transport::send calls made by the current call

config == <<mIsBatchingActivated, mBatchSize, mFlushingTimeout>>
slots == <<mOnBadRequest, mOnConnectionError, mOnConnectionSucceeded>>
thread == <<mFlushingThread, mFlushingThreadStarted>>
workerLocals == <<msToWaitToFlush, sleepUntil>>
flushLocals == <<caller, result, payload, thrown>>
callObs == <<callLen, callFlushes, callCrossings, callSends>>
env == <<nextPoint, nRegistrations>>

vars == <<now, mLineProtocolBatch, config, thread, slots, mLastConnectionStatus,
          mLastFlushTime, mBatchMutex, pc, flushLocals, points, writeResult,
          workerLocals,
          fired, env, callObs>>

\* ------------------------------------------------------- pure functions

\* InfluxDB::joinLineProtocolBatch: every line followed by "\n"
RECURSIVE joinLineProtocolBatch(_)
joinLineProtocolBatch(batch) ==
  IF batch = <<>> THEN <<>>
  ELSE <<Head(batch), NL>> \o joinLineProtocolBatch(Tail(batch))

\* the lines of a joined payload
LinesOf(joined) == SelectSeq(joined, LAMBDA c : c # NL)

\* InfluxDB::transmit: the catch clauses
transmitServerErrorAsFailure(fault) ==
  CASE fault = "bad_request_error" -> "BadRequest"
    [] fault \in {"server_error", "connection_error"} -> "ConnectionFailed"
    [] OTHER -> "TransmissionSucceeded"

transmit(fault) ==
  CASE fault = "server_error" -> "ServerError"
    [] fault = "bad_request_error" -> "BadRequest"
    [] fault = "connection_error" -> "ConnectionFailed"
    [] OTHER -> "TransmissionSucceeded"

\* InfluxDB::flushBatch: the condition under which the batch is cleared
ClearsBatchKeepOnBadRequest(transmissionResult) ==
  transmissionResult = "TransmissionSucceeded"

ClearsBatchNever(transmissionResult) == FALSE

ClearsBatch(transmissionResult) ==
  \/ transmissionResult = "TransmissionSucceeded"
  \/ transmissionResult = "BadRequest"

\* InfluxDB::sendNotifications: BadRequest calls mOnBadRequest
CallsOnBadRequestOnce(transmissionResult) ==
  transmissionResult = "BadRequest" /\ mLastConnectionStatus # "ConnectionSuccess"

CallsOnBadRequest(transmissionResult) == transmissionResult = "BadRequest"

\* InfluxDB::sendNotifications: which of notifyConnectionSuccess and
\* notifyConnectionError is called, named by the status it sets
NotifiedStatusBadRequestIsError(transmissionResult) ==
  IF transmissionResult \in {"TransmissionSucceeded", "ServerError"}
  THEN "ConnectionSuccess" ELSE "ConnectionError"

NotifiedStatus(transmissionResult) ==
  IF \/ transmissionResult = "TransmissionSucceeded"
     \/ transmissionResult = "ServerError"
     \/ transmissionResult = "BadRequest"
  THEN "ConnectionSuccess" ELSE "ConnectionError"

\* InfluxDB::notifyConnectionError / notifyConnectionSuccess: the guard
\* !(mLastConnectionStatus != status) returns early
NotifiesAlways(last, status) == TRUE

Notifies(last, status) == last # status

\* InfluxDB::onConnectionError / onTransmissionSucceeded: the replay test
ReplaysAlways(last, status) == last # "Unknown"

Replays(last, status) == last = status

\* InfluxDB::batchOf: the value stored in mIsBatchingActivated
BatchingActivatedBySize(batchSize, flushingTimeout) == batchSize > 0

BatchingActivated(batchSize, flushingTimeout) == TRUE

\* InfluxDB::startBufferFlushingThread: a thread is created unless there is one
StartsThreadAlways(flushingThread) == TRUE

StartsThread(flushingThread) == ~flushingThread

\* InfluxDB::flushBatch: the condition of the early return
FlushReturnsEarlyNever(batching, batch) == FALSE

FlushReturnsEarly(batching, batch) == ~batching \/ batch = <<>>

\* InfluxDB::addPointToBatch: mLineProtocolBatch.emplace_back(line)
emplace_front(batch, line) == <<line>> \o batch

emplace_back(batch, line) == Append(batch, line)

\* InfluxDB::addPointToBatch: mLineProtocolBatch.size() >= mBatchSize
ReachedBatchSizeAnyLine(size, batchSize) == size >= 1

ReachedBatchSizeStrict(size, batchSize) == size > batchSize

ReachedBatchSize(size, batchSize) == size >= batchSize

\* InfluxDB::doPeriodicFlushBuffer: the remaining wait computed after a sleep
RemainingWaitWholeTimeout(timeout, t, lastFlush) == timeout

RemainingWait(timeout, t, lastFlush) == timeout - (t - lastFlush)

\* InfluxDB::write with batching: result = PointsBatched, whatever the
\* transmissionResult of a flushBatch the last addPointToBatch called
BatchedWriteResultOfFlush(transmissionResult) ==
  IF transmissionResult = "none" THEN "PointsBatched" ELSE transmissionResult

BatchedWriteResult(transmissionResult) == "PointsBatched"

\* std::thread::join returns once the thread function has returned
JoinReturnsAtOnce(workerPc) == TRUE

JoinReturns(workerPc) == workerPc = "exited"

\* the callback slot a status notification invokes
SlotOf(status) ==
  IF status = "ConnectionSuccess" THEN "succeeded" ELSE "error"

Kinds == {"badRequest", "error", "succeeded"}

\* the callback held by a slot
Callback(slot) ==
  CASE slot = "badRequest" -> mOnBadRequest
    [] slot = "error" -> mOnConnectionError
    [] OTHER -> mOnConnectionSucceeded

\* ------------------------------------------------------------ initial state

\* InfluxDB::InfluxDB.  The constructor gives mFlushingTimeout and
\* mFlushingThreadStarted no value; both are assigned (batchOf,
\* startBufferFlushingThread) before anything reads them, so the value
\* chosen here is never observed.
Init ==
  /\ now = 0
  /\ mLineProtocolBatch = <<>>
  /\ mIsBatchingActivated = FALSE
  /\ mBatchSize = 0
  /\ mFlushingTimeout = 0
  /\ mFlushingThread = FALSE
  /\ mFlushingThreadStarted = FALSE
  /\ mOnBadRequest = 0
  /\ mOnConnectionError = 0
  /\ mOnConnectionSucceeded = 0
  /\ mLastConnectionStatus = "Unknown"
  /\ mLastFlushTime = 0
  /\ mBatchMutex = "free"
  /\ pc = [t \in Threads |-> IF t = "app" THEN "idle" ELSE "none"]
  /\ caller = [t \in Threads |-> "none"]
  /\ result = [t \in Threads |-> "none"]
  /\ payload = [t \in Threads |-> <<>>]
  /\ thrown = [t \in Threads |-> "none"]
  /\ points = <<>>
  /\ writeResult = "none"
  /\ msToWaitToFlush = 0
  /\ sleepUntil = 0
  /\ fired = [t \in Threads |-> <<>>]
  /\ nextPoint = 1
  /\ nRegistrations = 0
  /\ callLen = 0
  /\ callFlushes = 0
  /\ callCrossings = 0
  /\ callSends = 0

\* The observations (fired, callLen, callFlushes, callCrossings, callSends,
\* writeResult) describe the call in progress and are cleared when it returns.

\* ------------------------------------------------------------------ flush

\* What follows the return of flushBatch (or of addPointToBatch without a
\* flush) in the code that called it: the scoped_lock is released, the
\* worker resets its wait (line 66), write goes on to its next point.
Return(t, c, rest) ==
  /\ mBatchMutex' = IF c = "dtor" THEN mBatchMutex ELSE "free"
  /\ pc' = [pc EXCEPT ![t] =
              CASE c = "write" -> IF rest # <<>> THEN "addPoint" ELSE "returning"
                [] c = "flushBuffer" -> "returning"
                [] c = "timer" -> "loop"
                [] OTHER -> "destroyed"]
  /\ msToWaitToFlush' = IF c = "timer" THEN mFlushingTimeout ELSE msToWaitToFlush
  /\ writeResult' = IF c = "write" /\ rest = <<>>
                    THEN BatchedWriteResult(result[t]) ELSE writeResult
  /\ caller' = [caller EXCEPT ![t] = "none"]
  /\ result' = [result EXCEPT ![t] = "none"]
  /\ payload' = [payload EXCEPT ![t] = <<>>]
  /\ thrown' = [thrown EXCEPT ![t] = "none"]

\* InfluxDB::flushBatch up to the call of transmit, entered by thread t from
\* the code c with the batch as it is at the call.
flushBatch(t, c, batch, rest) ==
  /\ mLastFlushTime' = now
  /\ mLineProtocolBatch' = batch
  /\ fired' = [fired EXCEPT ![t] = <<>>]
  /\ IF FlushReturnsEarly(mIsBatchingActivated, batch)
     THEN Return(t, c, rest)
     ELSE /\ mBatchMutex' = IF c = "dtor" THEN mBatchMutex ELSE t
          /\ pc' = [pc EXCEPT ![t] = "transmit"]
          /\ caller' = [caller EXCEPT ![t] = c]
          /\ payload' = [payload EXCEPT ![t] = joinLineProtocolBatch(batch)]
          /\ UNCHANGED <<result, thrown, msToWaitToFlush, writeResult>>

\* InfluxDB::transmit called by flushBatch: Transport::send returns or raises
Transmit(t) ==
  /\ pc[t] = "transmit"
  /\ \E fault \in Faults :
       /\ thrown' = [thrown EXCEPT ![t] = fault]
       /\ result' = [result EXCEPT ![t] = transmit(fault)]
  /\ callSends' = IF t = "app" THEN callSends + 1 ELSE callSends
  /\ pc' = [pc EXCEPT ![t] = "notify"]
  /\ UNCHANGED <<now, mLineProtocolBatch, config, thread, slots, mLastConnectionStatus,
                 mLastFlushTime, mBatchMutex, caller, payload, points, writeResult,
                 workerLocals, fired, env, callLen, callFlushes, callCrossings>>

\* InfluxDB::sendNotifications with notifyConnectionSuccess/notifyConnectionError
\* up to the assignment of mLastConnectionStatus
SendNotifications(t) ==
  /\ pc[t] = "notify"
  /\ fired' = IF CallsOnBadRequest(result[t])
              THEN [fired EXCEPT ![t] = Append(@, <<"badRequest", mOnBadRequest>>)]
              ELSE fired
  /\ LET status == NotifiedStatus(result[t])
     IN IF Notifies(mLastConnectionStatus, status)
        THEN /\ mLastConnectionStatus' = status
             /\ pc' = [pc EXCEPT ![t] = "callback"]
        ELSE /\ pc' = [pc EXCEPT ![t] = "finish"]
             /\ UNCHANGED mLastConnectionStatus
  /\ UNCHANGED <<now, mLineProtocolBatch, config, thread, slots, mLastFlushTime,
                 mBatchMutex, flushLocals, points, writeResult, workerLocals,
                 env, callObs>>

\* notifyConnectionSuccess/notifyConnectionError: the call of the callback slot
InvokeCallback(t) ==
  /\ pc[t] = "callback"
  /\ LET slot == SlotOf(NotifiedStatus(result[t]))
     IN fired' = [fired EXCEPT ![t] = Append(@, <<slot, Callback(slot)>>)]
  /\ pc' = [pc EXCEPT ![t] = "finish"]
  /\ UNCHANGED <<now, mLineProtocolBatch, config, thread, slots, mLastConnectionStatus,
                 mLastFlushTime, mBatchMutex, flushLocals, points, writeResult,
                 workerLocals, env, callObs>>

\* InfluxDB::flushBatch after sendNotifications: the batch is cleared or kept,
\* and flushBatch returns
FinishFlush(t) ==
  /\ pc[t] = "finish"
  /\ mLineProtocolBatch' = IF ClearsBatch(result[t]) THEN <<>> ELSE mLineProtocolBatch
  /\ Return(t, caller[t], points)
  /\ fired' = IF t = "worker" THEN [fired EXCEPT ![t] = <<>>] ELSE fired
  /\ UNCHANGED <<now, config, thread, slots, mLastConnectionStatus, mLastFlushTime,
                 points, sleepUntil, env, callObs>>

\* ------------------------------------------------------- application thread

\* InfluxDB::batchOf, lines 72-74
BatchOf(batchSize, flushingTimeout) ==
  /\ pc["app"] = "idle"
  /\ mBatchSize' = batchSize
  /\ mIsBatchingActivated' = BatchingActivated(batchSize, flushingTimeout)
  /\ mFlushingTimeout' = flushingTimeout
  /\ pc' = [pc EXCEPT !["app"] = "batchOf"]
  /\ UNCHANGED <<now, mLineProtocolBatch, thread, slots, mLastConnectionStatus,
                 mLastFlushTime, mBatchMutex, flushLocals, points, writeResult,
                 workerLocals, fired, env, callObs>>

\* InfluxDB::batchOf with a timeout > 0: startBufferFlushingThread
StartBufferFlushingThread ==
  /\ pc["app"] = "batchOf"
  /\ mFlushingTimeout > 0
  /\ IF ~StartsThread(mFlushingThread)
     THEN /\ pc' = [pc EXCEPT !["app"] = "idle"]
          /\ UNCHANGED thread
     ELSE /\ mFlushingThreadStarted' = TRUE
          /\ mFlushingThread' = TRUE
          /\ pc' = [pc EXCEPT !["app"] = "idle", !["worker"] = "entry"]
  /\ UNCHANGED <<now, mLineProtocolBatch, config, slots, mLastConnectionStatus,
                 mLastFlushTime, mBatchMutex, flushLocals, points, writeResult,
                 workerLocals, fired, env, callObs>>

\* InfluxDB::joinFlushingThread up to the call of join: the application goes
\* on at `waiting` when there is a thread to join and at `after` when not
SignalStopWithoutJoin(waiting, after) ==
  /\ mFlushingThreadStarted' = FALSE
  /\ pc' = [pc EXCEPT !["app"] = after]
  /\ UNCHANGED mFlushingThread

SignalStop(waiting, after) ==
  IF ~mFlushingThread
  THEN /\ pc' = [pc EXCEPT !["app"] = after]
       /\ UNCHANGED thread
  ELSE /\ mFlushingThreadStarted' = FALSE
       /\ pc' = [pc EXCEPT !["app"] = waiting]
       /\ UNCHANGED mFlushingThread

\* InfluxDB::batchOf with a timeout of 0: joinFlushingThread
JoinFlushingThread ==
  /\ pc["app"] = "batchOf"
  /\ ~(mFlushingTimeout > 0)
  /\ SignalStop("join", "idle")
  /\ UNCHANGED <<now, mLineProtocolBatch, config, slots, mLastConnectionStatus,
                 mLastFlushTime, mBatchMutex, flushLocals, points, writeResult,
                 workerLocals, fired, env, callObs>>

\* mFlushingThread->join(); mFlushingThread.reset();
Joined(waiting, after) ==
  /\ pc["app"] = waiting
  /\ JoinReturns(pc["worker"])
  /\ mFlushingThread' = FALSE
  /\ pc' = [pc EXCEPT !["app"] = after,
                      !["worker"] = IF @ = "exited" THEN "joined" ELSE @]
  /\ UNCHANGED <<now, mLineProtocolBatch, config, mFlushingThreadStarted, slots,
                 mLastConnectionStatus, mLastFlushTime, mBatchMutex, flushLocals,
                 points, writeResult, workerLocals, fired, env, callObs>>

Join == Joined("join", "idle")

\* InfluxDB::write(Point&&)
WritePoint ==
  /\ pc["app"] = "idle"
  /\ nextPoint <= MaxPoints
  /\ nextPoint' = nextPoint + 1
  /\ callLen' = 1
  /\ IF mIsBatchingActivated
     THEN /\ points' = <<nextPoint>>
          /\ pc' = [pc EXCEPT !["app"] = "addPoint"]
          /\ UNCHANGED payload
     ELSE /\ payload' = [payload EXCEPT !["app"] = <<nextPoint>>]
          /\ pc' = [pc EXCEPT !["app"] = "direct"]
          /\ UNCHANGED points
  /\ UNCHANGED <<now, mLineProtocolBatch, config, thread, slots, mLastConnectionStatus,
                 mLastFlushTime, mBatchMutex, caller, result, thrown, writeResult,
                 workerLocals, fired, nRegistrations, callFlushes, callCrossings,
                 callSends>>

\* InfluxDB::write(std::vector<Point>&&) with n points
WriteVector(n) ==
  /\ pc["app"] = "idle"
  /\ nextPoint + n - 1 <= MaxPoints
  /\ nextPoint' = nextPoint + n
  /\ callLen' = n
  /\ LET given == [i \in 1..n |-> nextPoint + i - 1]
     IN IF mIsBatchingActivated
        THEN /\ points' = given
             /\ pc' = [pc EXCEPT !["app"] = IF n = 0 THEN "returning" ELSE "addPoint"]
             /\ writeResult' = IF n = 0 THEN "PointsBatched" ELSE writeResult
             /\ UNCHANGED payload
        ELSE /\ payload' = [payload EXCEPT !["app"] = joinLineProtocolBatch(given)]
             /\ pc' = [pc EXCEPT !["app"] = "direct"]
             /\ UNCHANGED <<points, writeResult>>
  /\ UNCHANGED <<now, mLineProtocolBatch, config, thread, slots, mLastConnectionStatus,
                 mLastFlushTime, mBatchMutex, caller, result, thrown, workerLocals,
                 fired, nRegistrations, callFlushes, callCrossings, callSends>>

\* InfluxDB::addPointToBatch for the next point of the write in progress
AddPointToBatch ==
  /\ pc["app"] = "addPoint"
  /\ mBatchMutex = "free"
  /\ LET batch == emplace_back(mLineProtocolBatch, Head(points))
         rest == Tail(points)
     IN /\ points' = rest
        /\ callCrossings' = callCrossings + IF Len(batch) >= mBatchSize THEN 1 ELSE 0
        /\ IF ReachedBatchSize(Len(batch), mBatchSize)
           THEN /\ callFlushes' = callFlushes + 1
                /\ flushBatch("app", "write", batch, rest)
           ELSE /\ mLineProtocolBatch' = batch
                /\ Return("app", "write", rest)
                /\ UNCHANGED <<callFlushes, mLastFlushTime, fired>>
  /\ UNCHANGED <<now, config, thread, slots, mLastConnectionStatus, sleepUntil,
                 env, callLen, callSends>>

\* InfluxDB::write without batching: transmit and return its result
TransmitDirectWithNotifications ==
  /\ pc["app"] = "direct"
  /\ \E fault \in Faults :
       /\ thrown' = [thrown EXCEPT !["app"] = fault]
       /\ writeResult' = transmit(fault)
       /\ mLastConnectionStatus' = NotifiedStatus(transmit(fault))
  /\ callSends' = callSends + 1
  /\ payload' = [payload EXCEPT !["app"] = <<>>]
  /\ pc' = [pc EXCEPT !["app"] = "returning"]
  /\ UNCHANGED <<now, mLineProtocolBatch, config, thread, slots,
                 mLastFlushTime, mBatchMutex, caller, result, points, workerLocals,
                 fired, env, callLen, callFlushes, callCrossings>>

TransmitDirect ==
  /\ pc["app"] = "direct"
  /\ \E fault \in Faults :
       /\ thrown' = [thrown EXCEPT !["app"] = fault]
       /\ writeResult' = transmit(fault)
  /\ callSends' = callSends + 1
  /\ payload' = [payload EXCEPT !["app"] = <<>>]
  /\ pc' = [pc EXCEPT !["app"] = "returning"]
  /\ UNCHANGED <<now, mLineProtocolBatch, config, thread, slots, mLastConnectionStatus,
                 mLastFlushTime, mBatchMutex, caller, result, points, workerLocals,
                 fired, env, callLen, callFlushes, callCrossings>>

\* InfluxDB::flushBuffer: the scoped_lock and the call of flushBatch
FlushBuffer ==
  /\ pc["app"] = "idle"
  /\ mBatchMutex = "free"
  /\ flushBatch("app", "flushBuffer", mLineProtocolBatch, <<>>)
  /\ callFlushes' = callFlushes + 1
  /\ UNCHANGED <<now, config, thread, slots, mLastConnectionStatus, points, sleepUntil,
                 env, callLen, callCrossings, callSends>>

\* InfluxDB::onBadRequest
OnBadRequest ==
  /\ pc["app"] = "idle"
  /\ nRegistrations < MaxRegistrations
  /\ nRegistrations' = nRegistrations + 1
  /\ mOnBadRequest' = mOnBadRequest + 1
  /\ UNCHANGED <<now, mLineProtocolBatch, config, thread, mOnConnectionError,
                 mOnConnectionSucceeded, mLastConnectionStatus, mLastFlushTime,
                 mBatchMutex, pc, flushLocals, points, writeResult, workerLocals,
                 fired, nextPoint, callObs>>

\* InfluxDB::onConnectionError: the assignment of the slot
OnConnectionError ==
  /\ pc["app"] = "idle"
  /\ nRegistrations < MaxRegistrations
  /\ nRegistrations' = nRegistrations + 1
  /\ mOnConnectionError' = mOnConnectionError + 1
  /\ pc' = [pc EXCEPT !["app"] = "onConnectionError"]
  /\ UNCHANGED <<now, mLineProtocolBatch, config, thread, mOnBadRequest,
                 mOnConnectionSucceeded, mLastConnectionStatus, mLastFlushTime,
                 mBatchMutex, flushLocals, points, writeResult, workerLocals,
                 fired, nextPoint, callObs>>

\* InfluxDB::onTransmissionSucceeded: the assignment of the slot
OnTransmissionSucceeded ==
  /\ pc["app"] = "idle"
  /\ nRegistrations < MaxRegistrations
  /\ nRegistrations' = nRegistrations + 1
  /\ mOnConnectionSucceeded' = mOnConnectionSucceeded + 1
  /\ pc' = [pc EXCEPT !["app"] = "onTransmissionSucceeded"]
  /\ UNCHANGED <<now, mLineProtocolBatch, config, thread, mOnBadRequest,
                 mOnConnectionError, mLastConnectionStatus, mLastFlushTime,
                 mBatchMutex, flushLocals, points, writeResult, workerLocals,
                 fired, nextPoint, callObs>>

\* onConnectionError / onTransmissionSucceeded after the assignment: the test
\* of mLastConnectionStatus and the call of the slot
Replay(registering, status) ==
  /\ pc["app"] = registering
  /\ LET slot == SlotOf(status)
     IN fired' = IF Replays(mLastConnectionStatus, status)
                 THEN [fired EXCEPT !["app"] = Append(@, <<slot, Callback(slot)>>)]
                 ELSE fired
  /\ pc' = [pc EXCEPT !["app"] = "returning"]
  /\ UNCHANGED <<now, mLineProtocolBatch, config, thread, slots, mLastConnectionStatus,
                 mLastFlushTime, mBatchMutex, flushLocals, points, writeResult,
                 workerLocals, env, callObs>>

ReplayConnectionError == Replay("onConnectionError", "ConnectionError")

ReplayTransmissionSucceeded == Replay("onTransmissionSucceeded", "ConnectionSuccess")

\* write, flushBuffer, onConnectionError or onTransmissionSucceeded returns to
\* the application
ApiReturn ==
  /\ pc["app"] = "returning"
  /\ pc' = [pc EXCEPT !["app"] = "idle"]
  /\ fired' = [fired EXCEPT !["app"] = <<>>]
  /\ writeResult' = "none"
  /\ callLen' = 0
  /\ callFlushes' = 0
  /\ callCrossings' = 0
  /\ callSends' = 0
  /\ thrown' = [thrown EXCEPT !["app"] = "none"]
  /\ UNCHANGED <<now, mLineProtocolBatch, config, thread, slots, mLastConnectionStatus,
                 mLastFlushTime, mBatchMutex, caller, result, payload, points,
                 workerLocals, env>>

\* InfluxDB::~InfluxDB: the test of mIsBatchingActivated and joinFlushingThread
Destructor ==
  /\ pc["app"] = "idle"
  /\ IF ~mIsBatchingActivated
     THEN /\ pc' = [pc EXCEPT !["app"] = "destroyed"]
          /\ UNCHANGED thread
     ELSE SignalStop("dtorJoin", "dtorFlush")
  /\ UNCHANGED <<now, mLineProtocolBatch, config, slots, mLastConnectionStatus,
                 mLastFlushTime, mBatchMutex, flushLocals, points, writeResult,
                 workerLocals, fired, env, callObs>>

DestructorJoin == Joined("dtorJoin", "dtorFlush")

\* InfluxDB::~InfluxDB: the final flushBatch, called without the mutex
DestructorFlush ==
  /\ pc["app"] = "dtorFlush"
  /\ flushBatch("app", "dtor", mLineProtocolBatch, <<>>)
  /\ callFlushes' = callFlushes + 1
  /\ UNCHANGED <<now, config, thread, slots, mLastConnectionStatus, points, sleepUntil,
                 env, callLen, callCrossings, callSends>>

\* ------------------------------------------------------------ worker thread

\* InfluxDB::doPeriodicFlushBuffer, line 53
WorkerEntry ==
  /\ pc["worker"] = "entry"
  /\ msToWaitToFlush' = mFlushingTimeout
  /\ pc' = [pc EXCEPT !["worker"] = "loop"]
  /\ UNCHANGED <<now, mLineProtocolBatch, config, thread, slots, mLastConnectionStatus,
                 mLastFlushTime, mBatchMutex, flushLocals, points, writeResult,
                 sleepUntil, fired, env, callObs>>

\* the test of the while loop, then the start of sleep_for(msToWaitToFlush)
WorkerLoop ==
  /\ pc["worker"] = "loop"
  /\ IF mFlushingThreadStarted
     THEN /\ sleepUntil' = now + msToWaitToFlush
          /\ pc' = [pc EXCEPT !["worker"] = "sleep"]
     ELSE /\ sleepUntil' = 0
          /\ pc' = [pc EXCEPT !["worker"] = "exited"]
  /\ UNCHANGED <<now, mLineProtocolBatch, config, thread, slots, mLastConnectionStatus,
                 mLastFlushTime, mBatchMutex, flushLocals, points, writeResult,
                 msToWaitToFlush, fired, env, callObs>>

\* sleep_for returns no earlier than asked; lines 57-62
WorkerWake ==
  /\ pc["worker"] = "sleep"
  /\ now >= sleepUntil
  /\ LET remaining == RemainingWait(mFlushingTimeout, now, mLastFlushTime)
     IN /\ msToWaitToFlush' = remaining
        /\ pc' = [pc EXCEPT !["worker"] = IF remaining > 0 THEN "loop" ELSE "lock"]
  /\ sleepUntil' = 0
  /\ UNCHANGED <<now, mLineProtocolBatch, config, thread, slots, mLastConnectionStatus,
                 mLastFlushTime, mBatchMutex, flushLocals, points, writeResult,
                 fired, env, callObs>>

\* lines 64-65: the scoped_lock and the call of flushBatch
WorkerFlush ==
  /\ pc["worker"] = "lock"
  /\ mBatchMutex = "free"
  /\ flushBatch("worker", "timer", mLineProtocolBatch, <<>>)
  /\ UNCHANGED <<now, config, thread, slots, mLastConnectionStatus, points, sleepUntil,
                 env, callObs>>

\* ------------------------------------------------------------------- clock

\* the earliest instant the model tells apart from earlier ones
Origin == IF MaxTime >= MaxInterval THEN 0 ELSE MaxTime - MaxInterval

\* One millisecond passes.  The clock value is kept in 0..MaxTime: at MaxTime
\* the origin of time moves instead, so the two recorded instants move back
\* by one.  An instant is not moved below Origin (a last flush that long ago
\* is older than every timeout) nor a deadline below 0 (it has passed).
Tick ==
  /\ IF now < MaxTime
     THEN /\ now' = now + 1
          /\ UNCHANGED <<mLastFlushTime, sleepUntil>>
     ELSE /\ now' = now
          /\ mLastFlushTime' = IF mLastFlushTime > Origin
                               THEN mLastFlushTime - 1 ELSE mLastFlushTime
          /\ sleepUntil' = IF sleepUntil > 0 THEN sleepUntil - 1 ELSE sleepUntil
  /\ UNCHANGED <<mLineProtocolBatch, config, thread, slots, mLastConnectionStatus,
                 mBatchMutex, pc, flushLocals, points, writeResult,
                 msToWaitToFlush, fired, env, callObs>>

\* ----------------------------------------------------------- specification
Next ==
  \/ \E batchSize \in 0..MaxBatchSize, flushingTimeout \in 0..MaxInterval :
       BatchOf(batchSize, flushingTimeout)
  \/ StartBufferFlushingThread
  \/ JoinFlushingThread
  \/ Join
  \/ WritePoint
  \/ \E n \in 0..MaxVector : WriteVector(n)
  \/ AddPointToBatch
  \/ TransmitDirect
  \/ FlushBuffer
  \/ OnBadRequest
  \/ OnConnectionError
  \/ OnTransmissionSucceeded
  \/ ReplayConnectionError
  \/ ReplayTransmissionSucceeded
  \/ ApiReturn
  \/ Destructor
  \/ DestructorJoin
  \/ DestructorFlush
  \/ WorkerEntry
  \/ WorkerLoop
  \/ WorkerWake
  \/ WorkerFlush
  \/ \E t \in Threads : Transmit(t)
  \/ \E t \in Threads : SendNotifications(t)
  \/ \E t \in Threads : InvokeCallback(t)
  \/ \E t \in Threads : FinishFlush(t)
  \/ Tick

Spec == Init /\ [][Next]_vars

\* Scheduling: time passes; a thread that can take a step of the worker's
\* loop or of a flush takes it (the operating system runs both threads and,
\* for this specification, Transport::send returns); the worker gets the
\* mutex if it stays free; and a send that is made again and again is not
\* met with a server or connection error every time.
GoodTransmit ==
  \E t \in Threads :
    Transmit(t) /\ result'[t] \in {"TransmissionSucceeded", "BadRequest"}

Fairness ==
  /\ WF_vars(Tick)
  /\ WF_vars(WorkerEntry)
  /\ WF_vars(WorkerLoop)
  /\ WF_vars(WorkerWake)
  /\ WF_vars(WorkerFlush)
  /\ \A t \in Threads :
       /\ WF_vars(Transmit(t))
       /\ WF_vars(SendNotifications(t))
       /\ WF_vars(InvokeCallback(t))
       /\ WF_vars(FinishFlush(t))
  /\ SF_vars(GoodTransmit)

FairSpec == Spec /\ Fairness

\* ------------------------------------------------------------- properties

\* thread t is inside flushBatch, at or after the call of transmit
InFlush(t) == pc[t] \in {"transmit", "notify", "callback", "finish"}

\* the invocations of mOnBadRequest among those a thread has made
BadRequestCalls(f) == SelectSeq(f, LAMBDA e : e[1] = "badRequest")

\* the invocations of mOnConnectionError and mOnConnectionSucceeded
StatusCalls(f) == SelectSeq(f, LAMBDA e : e[1] # "badRequest")

\* C1: when a flushBatch that transmitted returns, the batch is empty if the
\* result was TransmissionSucceeded or BadRequest, and is the batch the flush
\* started with (the lines of the payload, in order) if the result was
\* ServerError or ConnectionFailed.
C1_ClearedOrRetained ==
  [][\A t \in Threads :
       (pc[t] = "finish" /\ pc'[t] # "finish") =>
         /\ result[t] \in {"TransmissionSucceeded", "BadRequest"}
              => mLineProtocolBatch' = <<>>
         /\ result[t] \in {"ServerError", "ConnectionFailed"}
              => /\ mLineProtocolBatch' = LinesOf(payload[t])
                 /\ mLineProtocolBatch' = mLineProtocolBatch]_vars

\* C1 witness: a write returns after a flush that sent two lines and kept them
C1_Witness ==
  /\ pc["app"] = "returning"
  /\ callSends = 1
  /\ Len(mLineProtocolBatch) = 2

\* C2: the notifier calls the success or the error callback only in the step
\* after it changed mLastConnectionStatus, once, and the callback of the new
\* status; an outcome that leaves the status as it is calls neither, so
\* repeated ConnectionFailed (or repeated successful) flushes call the
\* callback for the first of them only.
C2_EdgeTriggered ==
  [][\A t \in Threads :
       /\ (pc[t] = "notify" /\ pc'[t] # "notify") =>
            /\ pc'[t] = IF mLastConnectionStatus' # mLastConnectionStatus
                        THEN "callback" ELSE "finish"
            /\ StatusCalls(fired'[t]) = <<>>
       /\ (pc[t] = "callback" /\ pc'[t] # "callback") =>
            /\ Len(StatusCalls(fired'[t])) = 1
            /\ StatusCalls(fired'[t])[1][1] = SlotOf(mLastConnectionStatus)
            /\ mLastConnectionStatus' = mLastConnectionStatus
       /\ (pc[t] = "transmit" /\ pc'[t] # "transmit") =>
            StatusCalls(fired'[t]) = <<>>]_vars

\* C2 witness: a second ConnectionFailed flush has been notified with the
\* status already ConnectionError, and no callback was called
C2_Witness ==
  \E t \in Threads :
    /\ pc[t] = "finish"
    /\ result[t] = "ConnectionFailed"
    /\ fired[t] = <<>>

\* C3: a flush has called mOnBadRequest exactly once after sendNotifications
\* if its result is BadRequest, whatever the connection status was, and not
\* at all otherwise.
C3_BadRequestEveryTime ==
  \A t \in Threads :
    /\ pc[t] \in {"callback", "finish"} =>
         Len(BadRequestCalls(fired[t])) = IF result[t] = "BadRequest" THEN 1 ELSE 0
    /\ pc[t] \in {"transmit", "notify"} => BadRequestCalls(fired[t]) = <<>>

\* C3 witness: a BadRequest flush found the status already ConnectionSuccess:
\* mOnBadRequest is the only callback it called
C3_Witness ==
  \E t \in Threads :
    /\ pc[t] = "finish"
    /\ result[t] = "BadRequest"
    /\ Len(fired[t]) = 1

\* C4: after sendNotifications the status is ConnectionSuccess for the
\* results TransmissionSucceeded, ServerError and BadRequest and
\* ConnectionError for ConnectionFailed; a BadRequest flush never calls the
\* error callback.
C4_StatusOfResult ==
  \A t \in Threads :
    pc[t] \in {"callback", "finish"} =>
      /\ result[t] \in {"TransmissionSucceeded", "ServerError", "BadRequest"}
           => mLastConnectionStatus = "ConnectionSuccess"
      /\ result[t] = "ConnectionFailed" => mLastConnectionStatus = "ConnectionError"
      /\ result[t] = "BadRequest"
           => \A i \in 1..Len(fired[t]) : fired[t][i][1] # "error"

\* C4 witness: a BadRequest flush has called mOnBadRequest and then the
\* success callback
C4_Witness ==
  \E t \in Threads :
    /\ pc[t] = "finish"
    /\ result[t] = "BadRequest"
    /\ Len(fired[t]) = 2
    /\ fired[t][2][1] = "succeeded"

\* C5: a registration calls the callback it has just stored once if the
\* status is the one the callback is for, and not at all if the status is
\* Unknown or the other one; no step of a registration changes the status.
C5_ReplayOnRegistration ==
  [][/\ (pc["app"] = "onTransmissionSucceeded" /\ pc'["app"] = "returning") =>
          fired'["app"] = IF mLastConnectionStatus = "ConnectionSuccess"
                          THEN << <<"succeeded", mOnConnectionSucceeded>> >>
                          ELSE <<>>
     /\ (pc["app"] = "onConnectionError" /\ pc'["app"] = "returning") =>
          fired'["app"] = IF mLastConnectionStatus = "ConnectionError"
                          THEN << <<"error", mOnConnectionError>> >>
                          ELSE <<>>
     /\ (pc'["app"] \in {"onTransmissionSucceeded", "onConnectionError"}
           /\ pc'["app"] # pc["app"]) =>
          /\ mLastConnectionStatus' = mLastConnectionStatus
          /\ fired'["app"] = <<>>
          /\ IF pc'["app"] = "onConnectionError"
             THEN mOnConnectionError' = mOnConnectionError + 1
             ELSE mOnConnectionSucceeded' = mOnConnectionSucceeded + 1
     /\ (pc["app"] \in {"onTransmissionSucceeded", "onConnectionError"}
           /\ pc'["app"] # pc["app"]) =>
          mLastConnectionStatus' = mLastConnectionStatus]_vars

\* C5 witness: onTransmissionSucceeded replayed ConnectionSuccess to the
\* callback it registered
C5_Witness ==
  /\ pc["app"] = "returning"
  /\ fired["app"] = << <<"succeeded", 1>> >>
  /\ callLen = 0
  /\ caller["app"] = "none"
  /\ writeResult = "none"

\* a batched write call is in progress
InBatchedWrite ==
  \/ pc["app"] = "addPoint"
  \/ caller["app"] = "write"
  \/ pc["app"] = "returning" /\ writeResult = "PointsBatched"

\* C6: as long as no append of a batched write has brought the batch to the
\* batch size, the write has made no flush, no transport send and no
\* callback call; and every flush that sends was called by an append that
\* reached the batch size, by the worker's timer, by flushBuffer or by the
\* destructor.
C6_NoSendBelowBatchSize ==
  /\ (InBatchedWrite /\ callCrossings = 0) =>
       /\ callSends = 0
       /\ callFlushes = 0
       /\ fired["app"] = <<>>
       /\ ~InFlush("app")
  /\ \A t \in Threads :
       InFlush(t) =>
         \/ caller[t] = "write" /\ t = "app" /\ callCrossings >= 1
         \/ caller[t] = "timer" /\ t = "worker"
         \/ caller[t] \in {"flushBuffer", "dtor"} /\ t = "app"

\* C6 witness: a batched write returns with its line buffered below the
\* batch size
C6_Witness ==
  /\ pc["app"] = "returning"
  /\ writeResult = "PointsBatched"
  /\ callLen = 1
  /\ callCrossings = 0
  /\ Len(mLineProtocolBatch) = 1
  /\ mBatchSize = 2

\* C7 as stated: a write whose appends reached the batch size has made
\* exactly one flush attempt when it returns.
C7_ExactlyOneFlushPerWrite ==
  (pc["app"] = "returning" /\ writeResult = "PointsBatched" /\ callCrossings >= 1)
    => callFlushes = 1

\* C7 amended: every append that brings the batch to or above the batch size
\* makes exactly one flush attempt, which has sent once when the append
\* returns; a write of one point makes at most one, a write of a vector one
\* for each such append.
C7_OneFlushPerCrossingAppend ==
  InBatchedWrite =>
    /\ callFlushes = callCrossings
    /\ callFlushes <= callLen
    /\ callSends = IF InFlush("app") /\ pc["app"] = "transmit"
                   THEN callFlushes - 1 ELSE callFlushes
    /\ callLen = 1 => callFlushes <= 1

\* C7 witness: a vector write returns after two appends that each flushed
C7_Witness ==
  /\ pc["app"] = "returning"
  /\ writeResult = "PointsBatched"
  /\ callLen = 2
  /\ callFlushes = 2
  /\ callSends = 2

\* C8: when mFlushingThread is null (no thread was started, or batchOf(n, 0)
\* or the destructor has joined it) the worker is at no step of
\* doPeriodicFlushBuffer and holds no mutex.
C8_NoWorkerAfterJoin ==
  ~mFlushingThread =>
    /\ pc["worker"] \in {"none", "joined"}
    /\ mBatchMutex # "worker"
    /\ caller["worker"] = "none"

\* C8 witness: batchOf(n, 0) has returned after joining a worker
C8_Witness ==
  /\ pc["worker"] = "joined"
  /\ pc["app"] = "idle"
  /\ ~mFlushingThread
  /\ mFlushingTimeout = 0

\* C9 as stated: from the call of batchOf(n, 0) to its return the batch does
\* not change and no flush transmits.
C9_DisableKeepsBatch ==
  [][(pc["app"] \in {"batchOf", "join"} /\ mFlushingTimeout = 0) =>
       /\ mLineProtocolBatch' = mLineProtocolBatch
       /\ \A t \in Threads : pc'[t] = "transmit" => pc[t] = "transmit"]_vars

\* C10 as stated: no thread is inside Transport::send for a flush while the
\* batch mutex is held.
C10_SendOutsideMutex ==
  \A t \in Threads :
    (pc[t] = "transmit" /\ caller[t] \in {"timer", "flushBuffer", "write"})
      => mBatchMutex = "free"

\* the result the classification of a transport fault has to give
Classified(fault) ==
  CASE fault = "connection_error" -> "ConnectionFailed"
    [] fault = "bad_request_error" -> "BadRequest"
    [] fault = "server_error" -> "ServerError"
    [] fault = "none" -> "TransmissionSucceeded"

\* C11: a write that returns with batching active returns PointsBatched,
\* whatever the result of a flush its appends called (the fault that flush met
\* is not handed on); a write that returns without batching has sent once and
\* returns the classification of what that send raised.
C11_WriteResult ==
  /\ (pc["app"] = "returning" /\ writeResult # "none") =>
       IF mIsBatchingActivated
       THEN /\ writeResult = "PointsBatched"
            /\ thrown["app"] = "none"
       ELSE /\ writeResult = Classified(thrown["app"])
            /\ writeResult # "PointsBatched"
            /\ callSends = 1
            /\ mLineProtocolBatch = <<>>
  /\ (caller["app"] = "write" /\ pc["app"] \in {"notify", "callback", "finish"}) =>
       /\ writeResult = "none"
       /\ result["app"] = Classified(thrown["app"])

\* C11 witness: a batched write returns PointsBatched although the flush it
\* called failed and kept the lines
C11_Witness ==
  /\ pc["app"] = "returning"
  /\ writeResult = "PointsBatched"
  /\ callFlushes = 1
  /\ callSends = 1
  /\ mLineProtocolBatch # <<>>
  /\ mLastConnectionStatus = "ConnectionError"

\* C12: the call of transmit gives ConnectionFailed for a connection error,
\* BadRequest for a bad request error, ServerError for a server error and
\* TransmissionSucceeded when nothing was raised, never PointsBatched, and
\* leaves the batch and the connection status as they were.
C12_TransmitClassifies ==
  [][/\ \A t \in Threads :
          (pc[t] = "transmit" /\ pc'[t] # "transmit") =>
            /\ thrown'[t] \in Faults
            /\ result'[t] = Classified(thrown'[t])
            /\ result'[t] \in TransmissionResult \ {"PointsBatched"}
            /\ mLineProtocolBatch' = mLineProtocolBatch
            /\ mLastConnectionStatus' = mLastConnectionStatus
     /\ (pc["app"] = "direct" /\ pc'["app"] # "direct") =>
          /\ thrown'["app"] \in Faults
          /\ writeResult' = Classified(thrown'["app"])
          /\ writeResult' \in TransmissionResult \ {"PointsBatched"}
          /\ mLineProtocolBatch' = mLineProtocolBatch
          /\ mLastConnectionStatus' = mLastConnectionStatus]_vars

\* C12 witness: the worker's transmit has classified a server error, with the
\* lines it sent still in the batch
C12_Witness ==
  /\ pc["worker"] = "notify"
  /\ thrown["worker"] = "server_error"
  /\ result["worker"] = "ServerError"
  /\ mLineProtocolBatch = LinesOf(payload["worker"])
  /\ mLineProtocolBatch # <<>>

\* the application is in ~InfluxDB after joinFlushingThread
AfterDestructorJoin ==
  \/ pc["app"] \in {"dtorFlush", "destroyed"}
  \/ caller["app"] = "dtor"

\* C13: once the destructor is past joinFlushingThread there is no worker (it
\* was never started, or has been joined) and nothing holds the mutex; with
\* batching active the destructor calls flushBatch once, which sends the batch
\* as it is then, at most once; with batching never activated it calls no
\* flushBatch and sends nothing.
C13_DestructorFinalFlush ==
  /\ AfterDestructorJoin =>
       /\ pc["worker"] \in {"none", "joined"}
       /\ ~mFlushingThread
       /\ mBatchMutex = "free"
       /\ caller["worker"] = "none"
  /\ pc["app"] = "dtorFlush" =>
       /\ mIsBatchingActivated
       /\ callFlushes = 0
       /\ callSends = 0
  /\ caller["app"] = "dtor" =>
       /\ mIsBatchingActivated
       /\ callFlushes = 1
       /\ callSends = IF pc["app"] = "transmit" THEN 0 ELSE 1
       /\ payload["app"] = joinLineProtocolBatch(mLineProtocolBatch)
       /\ mLineProtocolBatch # <<>>
  /\ pc["app"] = "destroyed" =>
       IF mIsBatchingActivated
       THEN callFlushes = 1 /\ callSends <= 1
       ELSE callFlushes = 0 /\ callSends = 0

\* C13 witness: the destructor has joined a worker and then sent the batch
C13_Witness ==
  /\ pc["app"] = "destroyed"
  /\ pc["worker"] = "joined"
  /\ callFlushes = 1
  /\ callSends = 1

\* the lines of a sequence are in the order in which write was given their
\* points (points are numbered in that order), each line once
InAppendOrder(lines) ==
  \A i, j \in 1..Len(lines) : i < j => lines[i] < lines[j]

\* C14: the batch holds its lines in append order, each once; the payload a
\* flush hands to Transport::send is these lines in this order, each followed
\* by a newline, so lines kept by a failed flush come before the lines
\* appended after it.
C14_PayloadInAppendOrder ==
  /\ InAppendOrder(mLineProtocolBatch)
  /\ \A t \in Threads :
       pc[t] = "transmit" =>
         /\ LinesOf(payload[t]) = mLineProtocolBatch
         /\ InAppendOrder(LinesOf(payload[t]))
         /\ Len(payload[t]) = 2 * Len(mLineProtocolBatch)
         /\ \A i \in 1..Len(mLineProtocolBatch) :
              /\ payload[t][2 * i - 1] = mLineProtocolBatch[i]
              /\ payload[t][2 * i] = NL

\* C14 witness: a write of one point sends two lines: the line a failed flush
\* kept, then the line this write appended
C14_Witness ==
  /\ pc["app"] = "transmit"
  /\ caller["app"] = "write"
  /\ callLen = 1
  /\ mLastConnectionStatus = "ConnectionError"
  /\ LinesOf(payload["app"]) = <<1, 2>>

\* C15: a call of batchOf, whatever its size and timeout, leaves batching
\* active, and nothing deactivates it; while it is active a write call sends
\* nothing directly, each of its points is appended to the batch, and it
\* returns PointsBatched.
C15_BatchingStaysActive ==
  [][/\ mIsBatchingActivated => mIsBatchingActivated'
     /\ (pc["app"] # "batchOf" /\ pc'["app"] = "batchOf") => mIsBatchingActivated'
     /\ (mIsBatchingActivated /\ pc["app"] = "idle") => pc'["app"] # "direct"
     /\ pc["app"] = "direct" => ~mIsBatchingActivated
     /\ (pc["app"] = "addPoint" /\ pc'["app"] # "addPoint") =>
          /\ mIsBatchingActivated
          /\ mLineProtocolBatch' = Append(mLineProtocolBatch, Head(points))
     /\ (pc["app"] = "addPoint" /\ points' # points) =>
          mLineProtocolBatch' = Append(mLineProtocolBatch, Head(points))
     /\ ((pc["app"] = "addPoint" \/ caller["app"] = "write")
           /\ pc'["app"] = "returning") =>
          writeResult' = "PointsBatched"]_vars

\* C15 witness: after a batchOf with a timeout and then batchOf(0, 0), which
\* joined the worker, a write has buffered its point and returns PointsBatched
C15_Witness ==
  /\ pc["app"] = "returning"
  /\ writeResult = "PointsBatched"
  /\ mIsBatchingActivated
  /\ mBatchSize = 0
  /\ mFlushingTimeout = 0
  /\ pc["worker"] = "joined"
  /\ callFlushes = 1

\* C16 as stated: when the worker starts a timer flush (takes the mutex and
\* calls flushBatch), at least mFlushingTimeout has passed since the last
\* flush attempt of any thread.
C16_TimerFlushNotEarly ==
  [][(pc["worker"] = "lock" /\ pc'["worker"] # "lock") =>
       now - mLastFlushTime >= mFlushingTimeout]_vars

\* thread t calls flushBatch in this step
FlushStarts(t) ==
  IF t = "worker"
  THEN pc["worker"] = "lock" /\ pc'["worker"] # "lock"
  ELSE callFlushes' = callFlushes + 1

\* C17: the step that calls flushBatch sets mLastFlushTime to the time of the
\* call, and no later step of that flush changes it, whatever the result; a
\* flushBatch that finds the batch empty returns without a send, without a
\* callback and with the batch and the connection status as they were, and
\* one that finds lines (with batching active) goes on to transmit them.
C17_FlushSetsLastFlushTime ==
  [][\A t \in Threads :
       /\ FlushStarts(t) =>
            /\ mLastFlushTime' = now
            /\ now' = now
            /\ mLineProtocolBatch' = <<>> =>
                 /\ mLineProtocolBatch = <<>>
                 /\ pc'[t] # "transmit"
                 /\ caller'[t] = "none"
                 /\ thrown' = thrown
                 /\ callSends' = callSends
                 /\ fired'[t] = <<>>
                 /\ mLastConnectionStatus' = mLastConnectionStatus
            /\ (mLineProtocolBatch' # <<>> /\ mIsBatchingActivated) =>
                 /\ pc'[t] = "transmit"
                 /\ payload'[t] = joinLineProtocolBatch(mLineProtocolBatch')
       /\ (InFlush(t) /\ pc'[t] # pc[t]) => mLastFlushTime' = mLastFlushTime]_vars

\* C17 witness: flushBuffer with batching active and nothing buffered has
\* moved mLastFlushTime to the current time and returns with nothing sent
C17_Witness ==
  /\ pc["app"] = "returning"
  /\ callFlushes = 1
  /\ callLen = 0
  /\ callSends = 0
  /\ mIsBatchingActivated
  /\ mLineProtocolBatch = <<>>
  /\ now > 0
  /\ mLastFlushTime = now
  /\ mLastConnectionStatus = "Unknown"

\* a flushing thread exists: it was created and has not been joined
WorkerExists == pc["worker"] \notin {"none", "joined"}

\* C18: a flushing thread is created only when none exists, so there is never
\* more than one.  batchOf with a timeout > 0 returns with a thread that
\* exists and runs (its run flag set), and is a no-op on the thread when
\* there is one already; batchOf with a timeout of 0 returns with none, and
\* is a no-op on the thread when there is none; this holds for every order
\* of such calls, so a joined thread is replaced by a new one.
C18_OneWorker ==
  [][/\ WorkerExists <=> mFlushingThread
     /\ (pc["worker"] # "entry" /\ pc'["worker"] = "entry") =>
          /\ ~WorkerExists
          /\ ~mFlushingThread
     /\ (pc["app"] = "batchOf" /\ pc'["app"] # "batchOf" /\ mFlushingTimeout > 0) =>
          /\ pc'["app"] = "idle"
          /\ mFlushingThread' /\ mFlushingThreadStarted'
          /\ WorkerExists' /\ pc'["worker"] # "exited"
          /\ mFlushingThread =>
               /\ mFlushingThreadStarted' = mFlushingThreadStarted
               /\ pc'["worker"] = pc["worker"]
     /\ (pc["app"] = "batchOf" /\ pc'["app"] # "batchOf" /\ mFlushingTimeout = 0) =>
          /\ ~mFlushingThread =>
               /\ pc'["app"] = "idle"
               /\ UNCHANGED <<mFlushingThread, mFlushingThreadStarted>>
               /\ pc'["worker"] = pc["worker"]
          /\ mFlushingThread => pc'["app"] = "join"
     /\ (pc["app"] = "join" /\ pc'["app"] # "join") =>
          pc'["app"] = "idle" /\ ~mFlushingThread' /\ ~WorkerExists'
     /\ (pc["app"] \in {"batchOf", "join"} /\ pc'["app"] = "idle") =>
          /\ mFlushingThread' <=> mFlushingTimeout > 0
          /\ WorkerExists' <=> mFlushingTimeout > 0]_vars

\* C18 witness: batchOf with a timeout > 0 has returned with a new thread at
\* its first statement, after an earlier thread ran and was joined (the value
\* that thread left in msToWaitToFlush is not yet overwritten)
C18_Witness ==
  /\ pc["app"] = "idle"
  /\ pc["worker"] = "entry"
  /\ msToWaitToFlush # 0
  /\ mFlushingThread
  /\ mFlushingThreadStarted
  /\ mFlushingTimeout > 0

\* the stop signal has been set and the thread it was set for is not yet joined
StopSignalled == mFlushingThread /\ ~mFlushingThreadStarted

\* C19 as stated (the part about the worker's steps): once the stop signal
\* is set the worker calls no flushBatch and starts no sleep.
C19_NoFlushAfterStop ==
  [][StopSignalled =>
       /\ ~(pc["worker"] = "lock" /\ pc'["worker"] # "lock")
       /\ ~(pc["worker"] # "sleep" /\ pc'["worker"] = "sleep")]_vars

\* the flushing thread has been started and not told to stop
SchedulerRunning == mFlushingThread /\ mFlushingThreadStarted

\* a flush has sent every line of the batch in a payload whose result is
\* TransmissionSucceeded or BadRequest, and is about to clear the batch
DeliveredBatch ==
  \E t \in Threads :
    /\ pc[t] = "finish"
    /\ result[t] \in {"TransmissionSucceeded", "BadRequest"}
    /\ LinesOf(payload[t]) = mLineProtocolBatch

\* C20: under FairSpec, whenever lines are buffered while the flushing thread
\* runs, then, unless the thread is told to stop, a flush sends all of them in
\* a payload whose result is TransmissionSucceeded or BadRequest (lines a
\* ServerError or ConnectionFailed flush kept are sent again until then), and
\* the batch becomes empty.
C20_EventuallyDelivered ==
  /\ (mLineProtocolBatch # <<>> /\ SchedulerRunning)
       ~> (DeliveredBatch \/ ~SchedulerRunning)
  /\ (mLineProtocolBatch # <<>> /\ SchedulerRunning)
       ~> (mLineProtocolBatch = <<>> \/ ~SchedulerRunning)

\* C20 witness: the worker's timer flush has delivered two lines that an
\* earlier flush kept after a connection error
C20_Witness ==
  /\ pc["worker"] = "finish"
  /\ caller["worker"] = "timer"
  /\ result["worker"] = "TransmissionSucceeded"
  /\ LinesOf(payload["worker"]) = <<1, 2>>
  /\ mLastConnectionStatus = "ConnectionSuccess"
  /\ fired["worker"] = << <<"succeeded", mOnConnectionSucceeded>> >>
  /\ SchedulerRunning

\* the batch holds as many lines as the batch size, or more
AtCapacity == mBatchSize >= 1 /\ Len(mLineProtocolBatch) >= mBatchSize

\* C21 as stated: while the application is in no call the batch holds fewer
\* lines than a batch size >= 1.
C21_BelowCapacityWhenIdle == pc["app"] = "idle" => ~AtCapacity

\* C21 amended: the batch comes to hold as many lines as the batch size only
\* by an append, which calls flushBatch in the same critical section, or by a
\* batchOf that lowers the size; when a flush returns with that many lines
\* in the batch its result was ServerError or ConnectionFailed and the lines
\* are the ones it sent; a flush whose result is TransmissionSucceeded or
\* BadRequest returns with the batch empty.
C21_AtCapacityOnlyKept ==
  [][/\ (~AtCapacity /\ AtCapacity') =>
          \/ /\ pc["app"] = "idle" /\ pc'["app"] = "batchOf"
             /\ mLineProtocolBatch' = mLineProtocolBatch
          \/ /\ pc["app"] = "addPoint" /\ pc'["app"] = "transmit"
             /\ caller'["app"] = "write"
             /\ mBatchMutex' = "app"
             /\ mLastFlushTime' = now
     /\ \A t \in Threads :
          (pc[t] = "finish" /\ pc'[t] # "finish") =>
            /\ AtCapacity' =>
                 /\ result[t] \in {"ServerError", "ConnectionFailed"}
                 /\ mLineProtocolBatch' = LinesOf(payload[t])
            /\ result[t] \in {"TransmissionSucceeded", "BadRequest"} =>
                 mLineProtocolBatch' = <<>>]_vars

\* C21 witness: with a batch size of 1, two writes whose flushes failed have
\* returned and the batch holds both lines
C21_Witness ==
  /\ pc["app"] = "idle"
  /\ mBatchSize = 1
  /\ mLineProtocolBatch = <<1, 2>>
  /\ mLastConnectionStatus = "ConnectionError"

\* C22: a write without batching sends once and returns; from its call to
\* its return no callback is called and the connection status, the batch and
\* mLastFlushTime stay as they were, whatever the send raised; as long as
\* batching has not been activated the status is Unknown and the batch empty.
C22_UnbatchedWriteBypassesNotifier ==
  [][/\ ((pc["app"] = "idle" /\ pc'["app"] = "direct")
           \/ pc["app"] = "direct"
           \/ (pc["app"] = "returning" /\ thrown["app"] # "none")) =>
          /\ ~mIsBatchingActivated
          /\ mLastConnectionStatus' = mLastConnectionStatus
          /\ mLineProtocolBatch' = mLineProtocolBatch
          /\ pc' # pc => mLastFlushTime' = mLastFlushTime
          /\ slots' = slots
          /\ fired = [t \in Threads |-> <<>>] /\ fired' = fired
          /\ callFlushes = 0 /\ callFlushes' = 0
          /\ \A t \in Threads : ~InFlush(t) /\ ~InFlush(t)'
     /\ ~mIsBatchingActivated =>
          /\ mLastConnectionStatus = "Unknown"
          /\ mLineProtocolBatch = <<>>]_vars

\* C22 witness: the second write without batching returns ConnectionFailed
\* with the status still Unknown
C22_Witness ==
  /\ pc["app"] = "returning"
  /\ writeResult = "ConnectionFailed"
  /\ thrown["app"] = "connection_error"
  /\ nextPoint = 3
  /\ callSends = 1
  /\ mLastConnectionStatus = "Unknown"
  /\ ~mIsBatchingActivated

\* the worker's notifier has changed the status in its current flush and
\* calls, or has called, the callback that the slot holds now
NotifierCalls(slot) ==
  \/ /\ pc["worker"] = "callback"
     /\ SlotOf(NotifiedStatus(result["worker"])) = slot
  \/ /\ pc["worker"] = "finish"
     /\ \E i \in 1..Len(fired["worker"]) : fired["worker"][i] = <<slot, Callback(slot)>>

\* C23 as stated: a callback that a registration has stored is not called by
\* the registration's replay when the worker's notifier calls it for the
\* status change of the flush it is in.
C23_NewCallbackAtMostOnce ==
  [][\A slot \in {"error", "succeeded"} :
       (pc["app"] \in {"onConnectionError", "onTransmissionSucceeded"}
          /\ pc'["app"] = "returning"
          /\ NotifierCalls(slot)) =>
         fired'["app"] # << <<slot, Callback(slot)>> >>]_vars

====
